---- MODULE Spec2Model ----
(***************************************************************************)
(* A model of the TDECat dashboard (Section 4: App/APP.py): the two Dash   *)
(* callbacks update_graph and update_individual_plots, the four per-object *)
(* panels they build (optical/infrared, UVOT, X-ray, spectrum), and the    *)
(* helper swift_vega_to_ab.                                                *)
(*                                                                         *)
(* Values.  A pandas cell or a Python value is a record [k, v, s]:         *)
(*   k = "num"  a finite number v (an integer of the model's fixed point), *)
(*   k = "nan"  NaN, what read_csv gives for an empty cell,                *)
(*   k = "none" Python's None,                                             *)
(*   k = "str"  a string, s being its sequence of characters.              *)
(* A quotient the code computes in floating point is kept as the exact     *)
(* fraction [n, d]; two fractions are compared by cross-multiplication.    *)
(***************************************************************************)
EXTENDS Integers, Sequences, FiniteSets, TLC

VARIABLES
    df,          \* the module-level catalogue table (APP.py:73-103)
    fs,          \* the data directories: path -> file content
    writes,      \* how many times the data directories were changed
    target,      \* value of 'target-dropdown' at the last callback
    snr_input,   \* value of 'snr-input' at the last callback
    plots,       \* what update_individual_plots last returned (or "raised")
    col_chosen,  \* value of 'controls-and-radio-item' at the last callback
    graph,       \* what update_graph last returned
    xfile,       \* X-ray panel alone: the light-curve file
    xthr,        \* X-ray panel alone: the threshold now
    xout,        \* X-ray panel alone: the panel's locals and figure now
    xprev,       \* X-ray panel alone: the panel's locals and figure before
    srow,        \* spectrum panel alone: the catalogue row
    sfolder,     \* spectrum panel alone: the spectrum folder
    sout,        \* spectrum panel alone: the panel's locals and figure
    vmag,        \* swift_vega_to_ab alone: m_vega
    vfilt,       \* swift_vega_to_ab alone: filt
    vout         \* swift_vega_to_ab alone: the call's outcome

appVars  == <<df, fs, writes, target, snr_input, plots, col_chosen, graph>>
xrayVars == <<xfile, xthr, xout, xprev>>
specVars == <<srow, sfolder, sout>>
vegaVars == <<vmag, vfilt, vout>>
vars     == <<appVars, xrayVars, specVars, vegaVars>>

----------------------------------------------------------------------------
(* Python and pandas values *)

Num(n) == [k |-> "num", v |-> n, s |-> <<>>]
NaN    == [k |-> "nan", v |-> 0, s |-> <<>>]
None   == [k |-> "none", v |-> 0, s |-> <<>>]
Str(t) == [k |-> "str", v |-> 0, s |-> t]

\* pd.notna
notna(x) == x.k \notin {"nan", "none"}

\* numpy's elementwise ==, < and >= on float cells: every comparison with
\* NaN is False.
FEq(a, b) == a.k = "num" /\ b.k = "num" /\ a.v = b.v
FLt(a, b) == a.k = "num" /\ b.k = "num" /\ a.v < b.v
FGe(a, b) == a.k = "num" /\ b.k = "num" /\ a.v >= b.v

\* An exact quotient n/d of the floating-point code; NaN stays NaN.
Quot(n, d) == [n |-> n, d |-> d]
QNaN       == [n |-> 0, d |-> 0]
QEq(p, q)  == p.d # 0 /\ q.d # 0 /\ p.n * q.d = q.n * p.d

----------------------------------------------------------------------------
(* str.upper and str.strip on sequences of characters *)

UpperChar(c) ==
    CASE c = "p" -> "P"
      [] c = "l" -> "L"
      [] c = "b" -> "B"
      [] c = "x" -> "X"
      [] OTHER   -> c

upper(t) == [i \in 1..Len(t) |-> UpperChar(t[i])]

RECURSIVE lstrip(_)
lstrip(t) == IF t # <<>> /\ Head(t) = " " THEN lstrip(Tail(t)) ELSE t

RECURSIVE rstrip(_)
rstrip(t) ==
    IF t # <<>> /\ t[Len(t)] = " " THEN rstrip(SubSeq(t, 1, Len(t) - 1)) ELSE t

strip(t) == lstrip(rstrip(t))

\* a[mask] with the selected elements in the opposite order.
RECURSIVE MaskedBackwards(_, _)
MaskedBackwards(a, mask) ==
    IF Len(a) = 0 THEN <<>>
    ELSE LET n == Len(a)
             front == MaskedBackwards(SubSeq(a, 1, n - 1), SubSeq(mask, 1, n - 1))
         IN IF mask[n] THEN <<a[n]>> \o front ELSE front

\* numpy boolean-mask indexing a[mask]: the elements whose mask is True, in
\* their order.
RECURSIVE Masked(_, _)
Masked(a, mask) ==
    IF Len(a) = 0 THEN <<>>
    ELSE LET n == Len(a)
             front == Masked(SubSeq(a, 1, n - 1), SubSeq(mask, 1, n - 1))
         IN IF mask[n] THEN Append(front, a[n]) ELSE front

----------------------------------------------------------------------------
(* Figures *)

\* go.Figure()
EmptyFigure == [traces |-> <<>>, annotations |-> <<>>, shapes |-> <<>>,
                xaxis |-> "", yaxis |-> "", layout |-> ""]

\* fig.add_annotation(text=...), and with x=... for a label at a wavelength
add_annotation(fig, text) ==
    [fig EXCEPT !.annotations = Append(@, [text |-> text, x |-> None])]

add_annotation_at(fig, text, x) ==
    [fig EXCEPT !.annotations = Append(@, [text |-> text, x |-> x])]

\* fig.add_shape(type="line", x0=x, x1=x, ...)
add_shape(fig, x) ==
    [fig EXCEPT !.shapes = Append(@, [x0 |-> x, x1 |-> x])]

add_trace(fig, trace) ==
    [fig EXCEPT !.traces = Append(@, trace)]

\* fig.update_xaxes(title=...), fig.update_yaxes(title=...) and
\* fig.update_layout(...)
update_xaxes(fig, title) == [fig EXCEPT !.xaxis = title]
update_yaxes(fig, title) == [fig EXCEPT !.yaxis = title]
update_layout(fig, what) == [fig EXCEPT !.layout = what]

----------------------------------------------------------------------------
(* Swift UVOT zero points and swift_vega_to_ab (APP.py:24-66).  Magnitudes *)
(* are in hundredths of a magnitude.                                       *)

zeropoints_new ==
    [vv |-> [vega |-> 1789, ab |-> 1788],
     bb |-> [vega |-> 1911, ab |-> 1898],
     uu |-> [vega |-> 1834, ab |-> 1936],
     w1 |-> [vega |-> 1744, ab |-> 1895],
     m2 |-> [vega |-> 1685, ab |-> 1854],
     w2 |-> [vega |-> 1738, ab |-> 1911]]

uvot_filters == <<"w2", "m2", "w1", "uu", "bb", "vv">>

\* NaN + offset is NaN.
AddOffset(m, offset) == IF m.k = "num" THEN Num(m.v + offset) ELSE m

\* swift_vega_to_ab with the offset subtracted.
swift_vega_to_ab_minus(m_vega, filt) ==
    IF filt \in DOMAIN zeropoints_new
    THEN [raised |-> "",
          value |-> AddOffset(m_vega, zeropoints_new[filt].vega - zeropoints_new[filt].ab)]
    ELSE [raised |-> "KeyError", value |-> None]

\* The call's outcome: the value returned, or the KeyError of the lookup
\* zeropoints_new[filt].
swift_vega_to_ab(m_vega, filt) ==
    IF filt \in DOMAIN zeropoints_new
    THEN [raised |-> "",
          value |-> AddOffset(m_vega, zeropoints_new[filt].ab - zeropoints_new[filt].vega)]
    ELSE [raised |-> "KeyError", value |-> None]

----------------------------------------------------------------------------
(* Files of the data directories *)

\* A file is [k, cols, rows]: k = "missing" (os.path.exists is False),
\* "unreadable" (pd.read_csv raises) or "table" (a DataFrame of the columns
\* cols, every row a function on cols).
MissingFile    == [k |-> "missing", cols |-> {}, rows |-> <<>>]
UnreadableFile == [k |-> "unreadable", cols |-> {}, rows |-> <<>>]
Table(cols, rows) == [k |-> "table", cols |-> cols, rows |-> rows]

\* dfl_xray[c].values
Column(t, c) == [i \in 1..Len(t.rows) |-> t.rows[i][c]]

\* A spectrum folder is [k, files]: k = "missing", "unlistable" (os.listdir
\* raises) or "dir", files being the listing in os.listdir's order.  A file
\* is [name, content], content = [k, ncols, w, f]: k = "unreadable" when
\* pd.read_csv raises, else the first two columns w and f of ncols columns.
MissingFolder    == [k |-> "missing", files |-> <<>>]
UnlistableFolder == [k |-> "unlistable", files |-> <<>>]
Folder(files)    == [k |-> "dir", files |-> files]

----------------------------------------------------------------------------
(* Data loading and preparation (APP.py:72-111) *)

\* s.replace("AT ", "AT")
RECURSIVE replace_AT(_)
replace_AT(t) ==
    IF Len(t) < 3 THEN t
    ELSE IF SubSeq(t, 1, 3) = <<"A", "T", " ">>
         THEN <<"A", "T">> \o replace_AT(SubSeq(t, 4, Len(t)))
         ELSE <<Head(t)>> \o replace_AT(Tail(t))

\* name.split()[-1] of a name that is not blank
RECURSIVE last_word(_)
last_word(t) ==
    LET u == strip(t)
    IN IF \E i \in 1..Len(u) : u[i] = " " THEN last_word(Tail(u)) ELSE u

\* Lines 77-82.
AT_name_plain(row) ==
    LET at  == row["AT name"]
        alt == row["Alternative name"]
    IN IF notna(at) /\ strip(at.s) # <<>> THEN Str(replace_AT(strip(at.s)))
       ELSE IF notna(alt) /\ strip(alt.s) # <<>> THEN Str(strip(alt.s))
       ELSE Str(<<>>)

\* Line 83: Series.str.strip() leaves a missing name missing.
ZTF_name_plain(row) ==
    IF notna(row["ZTF name"]) THEN Str(strip(row["ZTF name"].s)) ELSE NaN

\* Lines 86-90.
extract_identifier(name) ==
    IF notna(name) /\ strip(name.s) # <<>> THEN Str(last_word(name.s)) ELSE None

\* Lines 101-103: '[' + name + '](' + base_url + identifier + ')', missing
\* when the name or the identifier is; the base URL is one element.
markdown_link(name, base_url, identifier) ==
    IF notna(name) /\ notna(identifier)
    THEN Str(<<"[">> \o name.s \o <<"]", "(", base_url>> \o identifier.s \o <<")">>)
    ELSE NaN

base_url_at   == "https://www.wis-tns.org/object/"
base_url_ztf  == "https://alerce.online/object/"
base_url_gaia == "http://gsaweb.ast.cam.ac.uk/alerts/alert/"

\* One row of df after lines 77-103.
PrepareRow(row) ==
    [c \in DOMAIN row \cup {"AT_name_plain", "ZTF_name_plain"} |->
        CASE c = "AT_name_plain"  -> AT_name_plain(row)
          [] c = "ZTF_name_plain" -> ZTF_name_plain(row)
          [] c = "AT name" ->
                markdown_link(row[c], base_url_at, extract_identifier(row[c]))
          [] c = "ZTF name" ->
                markdown_link(row[c], base_url_ztf, extract_identifier(row[c]))
          [] c = "Gaia alert name" ->
                markdown_link(row[c], base_url_gaia, extract_identifier(row[c]))
          [] OTHER -> row[c]]

PrepareCatalogue(csv) == [i \in 1..Len(csv) |-> PrepareRow(csv[i])]

data_dir_bhtom == "OPTICAL_INFRARED"
data_dir_sp    == "OPTICAL_SPECTRA"
data_dir_uvot  == "UV"
data_dir_xray  == "X-RAYS"

\* os.path.join(directory, file name): the directory and the object's name
\* in the file name.
PathOf(dir, name) == <<dir, name>>

\* The content at a path: missing when nothing was ever put there.
ReadPath(files, path) ==
    IF path \in DOMAIN files THEN files[path]
    ELSE IF path[1] = data_dir_sp THEN MissingFolder
    ELSE MissingFile

----------------------------------------------------------------------------
(* 1. Optical/infrared light curve (APP.py:241-263) *)

\* The filters of the photometry files, in the order groupby sorts them.
OpticalFilters == << <<"g">>, <<"r">> >>

OpticalColumns == {"Filter", "MJD", "Magnitude", "Error"}

OpticalLayout(fig) ==
    update_layout(
        update_yaxes(update_xaxes(fig, "Modified Julian Date"),
                     "Magnitude; autorange=reversed"),
        "legend_title=Filter")

\* The rows of one filter, as a mask.
InGroup(t, filt) ==
    [i \in 1..Len(t.rows) |-> notna(t.rows[i].Filter) /\ t.rows[i].Filter.s = filt]

\* for filt, group in dfl_opt.groupby('Filter'): add one trace per group.
RECURSIVE OpticalGroups(_, _, _)
OpticalGroups(fig, t, filters) ==
    IF filters = <<>> THEN fig
    ELSE LET g == InGroup(t, Head(filters))
             next == IF \E i \in 1..Len(g) : g[i]
                     THEN add_trace(fig,
                            [name |-> Head(filters),
                             x |-> Masked(Column(t, "MJD"), g),
                             y |-> Masked(Column(t, "Magnitude"), g),
                             error_y |-> TRUE,
                             array |-> Masked(Column(t, "Error"), g),
                             arrayminus |-> <<>>])
                     ELSE fig
         IN OpticalGroups(next, t, Tail(filters))

\* What the try block of lines 245-257 raises: read_csv, groupby on a
\* missing 'Filter', or a missing column of the first group.
OpticalRaises(file) ==
    \/ file.k = "unreadable"
    \/ "Filter" \notin file.cols
    \/ /\ \E i \in 1..Len(file.rows) : notna(file.rows[i].Filter)
       /\ ~(OpticalColumns \subseteq file.cols)

OpticalPanel(file) ==
    LET fig == CASE file.k = "missing" ->
                      add_annotation(EmptyFigure, "No Optical/Infrared data available")
                 [] OpticalRaises(file) ->
                      add_annotation(EmptyFigure, "Error loading Optical/Infrared data")
                 [] OTHER -> OpticalGroups(EmptyFigure, file, OpticalFilters)
    IN OpticalLayout(fig)

----------------------------------------------------------------------------
(* 2. UVOT light curve (APP.py:265-296) *)

uvot_markers ==
    [w2 |-> "circle", m2 |-> "square", w1 |-> "diamond", uu |-> "triangle-up",
     bb |-> "triangle-down", vv |-> "pentagon"]
uvot_colors ==
    [w2 |-> "violet", m2 |-> "purple", w1 |-> "blue", uu |-> "green",
     bb |-> "orange", vv |-> "red"]

mag_col(flt) ==
    [w2 |-> "mag_w2_src", m2 |-> "mag_m2_src", w1 |-> "mag_w1_src",
     uu |-> "mag_uu_src", bb |-> "mag_bb_src", vv |-> "mag_vv_src"][flt]
err_col(flt) ==
    [w2 |-> "magerr_w2_src", m2 |-> "magerr_m2_src", w1 |-> "magerr_w1_src",
     uu |-> "magerr_uu_src", bb |-> "magerr_bb_src", vv |-> "magerr_vv_src"][flt]
trace_name(flt) ==
    [w2 |-> "UVOT W2", m2 |-> "UVOT M2", w1 |-> "UVOT W1", uu |-> "UVOT UU",
     bb |-> "UVOT BB", vv |-> "UVOT VV"][flt]

HasFilter(t, flt) == mag_col(flt) \in t.cols /\ err_col(flt) \in t.cols

\* for flt in uvot_filters: one trace per filter whose two columns exist.
RECURSIVE UvotFilters(_, _, _)
UvotFilters(fig, t, filters) ==
    IF filters = <<>> THEN fig
    ELSE LET flt  == Head(filters)
             next == IF HasFilter(t, flt)
                     THEN add_trace(fig,
                            [name |-> trace_name(flt),
                             x |-> Column(t, "mjd"),
                             y |-> [i \in 1..Len(t.rows) |->
                                      swift_vega_to_ab(t.rows[i][mag_col(flt)], flt).value],
                             error_y |-> TRUE,
                             array |-> Column(t, err_col(flt)),
                             arrayminus |-> <<>>,
                             marker |-> <<uvot_markers[flt], uvot_colors[flt]>>])
                     ELSE fig
         IN UvotFilters(next, t, Tail(filters))

\* What the try block of lines 269-291 raises: read_csv, or dfl_uvot["mjd"]
\* at the first filter that has its columns.
UvotRaises(file) ==
    \/ file.k = "unreadable"
    \/ /\ \E j \in 1..Len(uvot_filters) : HasFilter(file, uvot_filters[j])
       /\ "mjd" \notin file.cols

UvotPanel(file) ==
    LET labelled(fig, y) ==
            update_layout(update_yaxes(update_xaxes(fig, "Modified Julian Date"), y),
                          "legend_title=Filter")
    IN CASE file.k = "missing" ->
              labelled(add_annotation(EmptyFigure, "No UVOT data available"),
                       "AB Magnitude")
         [] UvotRaises(file) ->
              labelled(add_annotation(EmptyFigure, "Error loading UVOT data"),
                       "AB Magnitude")
         [] OTHER ->
              labelled(UvotFilters(EmptyFigure, file, uvot_filters),
                       "AB Magnitude; autorange=reversed")

----------------------------------------------------------------------------
(* 3. X-ray light curve (APP.py:298-439) *)

\* The columns of a per-object X-ray file.  dfl_xray[c] raises KeyError on
\* a missing one of XrayRequired; the others have a default.
XrayRequired == {"mjd_start", "mjd_stop", "src_flux", "src_flux_errinf",
                 "src_flux_errsup", "best_model"}
XrayDefaulted == {"src_flux_SNR", "src_flux_UL",
                  "flux_fit_pl", "flux_fit_pl_errinf", "flux_fit_pl_errsup",
                  "flux_fit_bb", "flux_fit_bb_errinf", "flux_fit_bb_errsup"}
XrayColumns == XrayRequired \cup XrayDefaulted

\* np.zeros(len(dfl_xray)) and pd.Series(0, index=dfl_xray.index).values
zeros(t) == [i \in 1..Len(t.rows) |-> Num(0)]

\* dfl_xray[c].values if c in dfl_xray.columns else zeros; dfl_xray.get(c, zeros)
ColumnOrZeros(t, c) == IF c \in t.cols THEN Column(t, c) ELSE zeros(t)

\* (mjd_start + mjd_stop) / 2.0
MidMJD(a, b) ==
    IF a.k = "num" /\ b.k = "num" THEN Quot(a.v + b.v, 2) ELSE QNaN

mjd_vals(t) ==
    [i \in 1..Len(t.rows) |-> MidMJD(t.rows[i].mjd_start, t.rows[i].mjd_stop)]

\* .fillna("").astype(str).str.upper().str.strip()
NormLabel(cell) == IF notna(cell) THEN strip(upper(cell.s)) ELSE <<>>

best_model_raw(t) == [i \in 1..Len(t.rows) |-> NormLabel(t.rows[i].best_model)]

\* ul_mask without the zero-flux term.
ul_mask_snr_only(src_flux, src_snr, snr_threshold) ==
    [i \in 1..Len(src_flux) |-> FLt(src_snr[i], snr_threshold)]

\* ul_mask with the comparison turned round.
ul_mask_turned(src_flux, src_snr, snr_threshold) ==
    [i \in 1..Len(src_flux) |->
        FEq(src_flux[i], Num(0)) \/ FLt(snr_threshold, src_snr[i])]

ul_mask(src_flux, src_snr, snr_threshold) ==
    [i \in 1..Len(src_flux) |->
        FEq(src_flux[i], Num(0)) \/ FLt(src_snr[i], snr_threshold)]

det_mask(src_snr, snr_threshold, ul) ==
    [i \in 1..Len(src_snr) |-> FGe(src_snr[i], snr_threshold) /\ ~ul[i]]

pl_mask(det, labels)      == [i \in 1..Len(det) |-> det[i] /\ labels[i] = <<"P", "L">>]
bb_mask(det, labels)      == [i \in 1..Len(det) |-> det[i] /\ labels[i] = <<"B", "B">>]
src_det_mask(det, labels) == [i \in 1..Len(det) |-> det[i] /\ labels[i] = <<>>]

ErrorTrace(name, x, y, errhi, errlo) ==
    [name |-> name, x |-> x, y |-> y, error_y |-> TRUE,
     array |-> errhi, arrayminus |-> errlo]

PlainTrace(name, x, y) ==
    [name |-> name, x |-> x, y |-> y, error_y |-> FALSE,
     array |-> <<>>, arrayminus |-> <<>>]

\* if len(x): fig.add_trace(...)
AddIfAny(fig, trace) == IF Len(trace.x) > 0 THEN add_trace(fig, trace) ELSE fig

\* Lines 433-439, applied however the try block ended.
XrayLayout(fig) ==
    update_layout(
        update_yaxes(update_xaxes(fig, "Modified Julian Date"), "Flux (erg/s/cm^-2)"),
        "legend_title=Data Type / Best-Fit Model; showlegend")

\* What the try block of lines 302-428 raises, if anything: read_csv on an
\* unreadable file, a KeyError on a missing required column, or the
\* TypeError of comparing a float with None (an array of no elements
\* compares nothing and raises nothing).
XrayRaises(file, snr_threshold) ==
    \/ file.k = "unreadable"
    \/ ~(XrayRequired \subseteq file.cols)
    \/ snr_threshold.k = "none" /\ Len(file.rows) > 0

\* The locals of the try block when nothing is raised.
XrayLocals(t, snr_threshold) ==
    LET flux   == Column(t, "src_flux")
        snr    == ColumnOrZeros(t, "src_flux_SNR")
        labels == best_model_raw(t)
        ul     == ul_mask(flux, snr, snr_threshold)
        det    == det_mask(snr, snr_threshold, ul)
    IN [ul_mask |-> ul, det_mask |-> det,
        pl_mask |-> pl_mask(det, labels),
        bb_mask |-> bb_mask(det, labels),
        src_det_mask |-> src_det_mask(det, labels)]

XrayTraces(t, m) ==
    LET mjd == mjd_vals(t)
        src == ErrorTrace("Detection (raw src_flux)",
                   Masked(mjd, m.src_det_mask),
                   Masked(Column(t, "src_flux"), m.src_det_mask),
                   Masked(Column(t, "src_flux_errsup"), m.src_det_mask),
                   Masked(Column(t, "src_flux_errinf"), m.src_det_mask))
        pl  == ErrorTrace("Detection (PL fit)",
                   Masked(mjd, m.pl_mask),
                   Masked(ColumnOrZeros(t, "flux_fit_pl"), m.pl_mask),
                   Masked(ColumnOrZeros(t, "flux_fit_pl_errsup"), m.pl_mask),
                   Masked(ColumnOrZeros(t, "flux_fit_pl_errinf"), m.pl_mask))
        bb  == ErrorTrace("Detection (BB fit)",
                   Masked(mjd, m.bb_mask),
                   Masked(ColumnOrZeros(t, "flux_fit_bb"), m.bb_mask),
                   Masked(ColumnOrZeros(t, "flux_fit_bb_errsup"), m.bb_mask),
                   Masked(ColumnOrZeros(t, "flux_fit_bb_errinf"), m.bb_mask))
        ul  == PlainTrace("Upper limits",
                   Masked(mjd, m.ul_mask),
                   Masked(ColumnOrZeros(t, "src_flux_UL"), m.ul_mask))
    IN AddIfAny(AddIfAny(AddIfAny(AddIfAny(EmptyFigure, src), pl), bb), ul)

NoMasks == [ul_mask |-> <<>>, det_mask |-> <<>>, pl_mask |-> <<>>,
            bb_mask |-> <<>>, src_det_mask |-> <<>>]

\* The X-ray section of update_individual_plots: its figure, how the try
\* block ended, and the masks it computed.
XrayPanel(file, snr_threshold) ==
    LET ended == IF file.k = "missing" THEN "absent"
                 ELSE IF XrayRaises(file, snr_threshold) THEN "except"
                 ELSE "ok"
        m   == IF ended = "ok" THEN XrayLocals(file, snr_threshold) ELSE NoMasks
        fig == CASE ended = "absent" ->
                      add_annotation(EmptyFigure, "No X-ray data available")
                 [] ended = "except" ->
                      add_annotation(EmptyFigure, "Error loading X-ray data")
                 [] OTHER -> XrayTraces(file, m)
    IN [ended |-> ended, masks |-> m, thr |-> snr_threshold,
        fig |-> XrayLayout(fig)]

----------------------------------------------------------------------------
(* 4. Spectrum plot (APP.py:441-553).  Wavelengths are in tenths of an *)
(* angstrom.                                                           *)

Digits == <<"0", "1", "2", "3", "4", "5", "6", "7", "8", "9">>
IsDigit(c)  == \E d \in 1..10 : Digits[d] = c
DigitVal(c) == (CHOOSE d \in 1..10 : Digits[d] = c) - 1

RECURSIVE DigitsValue(_)
DigitsValue(t) ==
    IF t = <<>> THEN 0
    ELSE 10 * DigitsValue(SubSeq(t, 1, Len(t) - 1)) + DigitVal(t[Len(t)])

\* Python's float() on a string of digits with at most one point, blanks
\* around it allowed: the exact value, or ValueError (ok = FALSE).
ParseFloat(t) ==
    LET u    == strip(t)
        dots == {i \in 1..Len(u) : u[i] = "."}
        bad  == \/ Cardinality(dots) > 1
                \/ Cardinality(dots) = Len(u)
                \/ \E i \in 1..Len(u) : i \notin dots /\ ~IsDigit(u[i])
    IN IF bad THEN [ok |-> FALSE, value |-> Quot(0, 1)]
       ELSE IF dots = {} THEN [ok |-> TRUE, value |-> Quot(DigitsValue(u), 1)]
       ELSE LET p    == CHOOSE i \in dots : TRUE
                int  == SubSeq(u, 1, p - 1)
                frac == SubSeq(u, p + 1, Len(u))
            IN [ok |-> TRUE,
                value |-> Quot(DigitsValue(int \o frac), 10 ^ Len(frac))]

\* Lines 456-459: z = float(row['Redshift']) if pd.notna(...) else 0.0,
\* and 0.0 when float() raises.
Redshift(row) ==
    LET cell == row.Redshift
    IN IF ~notna(cell) THEN Quot(0, 1)
       ELSE IF cell.k = "num" THEN Quot(cell.v, 1)
       ELSE IF ParseFloat(cell.s).ok THEN ParseFloat(cell.s).value
       ELSE Quot(0, 1)

\* wavelength_obs * (1.0 + z)
RestWavelengthTimes(w, z) ==
    IF w.k = "num" THEN Quot(w.v * (z.d + z.n), z.d) ELSE QNaN

\* wavelength_obs / (1.0 + z), for one sample and z = z.n / z.d
RestWavelength(w, z) ==
    IF w.k = "num" THEN Quot(w.v * z.d, z.d + z.n) ELSE QNaN

\* f.startswith('.')
startswith_dot(name) == name # <<>> /\ name[1] = "."

rest_lines == <<[label |-> "H alpha", wl_rest |-> Num(65628)],
                [label |-> "H beta", wl_rest |-> Num(48613)],
                [label |-> "He II", wl_rest |-> Num(46860)]>>

\* The body of the loop of lines 469-493 for one file, on the loop's state
\* [fig, all_y_vals, raised].
SpectrumFile(st, file, z) ==
    LET c == file.content
    IN IF st.raised \/ c.k = "unreadable" \/ Len(c.w) = 0 \/ c.ncols < 2 THEN st
       ELSE IF \E i \in 1..Len(c.w) : c.w[i].k = "str"
            THEN [st EXCEPT !.raised = TRUE]
       ELSE [fig |-> add_trace(st.fig,
                        [name |-> file.name,
                         x |-> [i \in 1..Len(c.w) |-> RestWavelength(c.w[i], z)],
                         y |-> c.f]),
             all_y_vals |-> st.all_y_vals \o c.f,
             raised |-> FALSE]

RECURSIVE SpectrumLoop(_, _, _)
SpectrumLoop(st, files, z) ==
    IF files = <<>> THEN st
    ELSE SpectrumLoop(SpectrumFile(st, Head(files), z), Tail(files), z)

\* Lines 509-530: a line and a label at each rest wavelength.
RECURSIVE AddMarkers(_, _)
AddMarkers(fig, lines) ==
    IF lines = <<>> THEN fig
    ELSE AddMarkers(
            add_annotation_at(add_shape(fig, Head(lines).wl_rest),
                              Head(lines).label, Head(lines).wl_rest),
            Tail(lines))

\* Lines 538-553.
SpectrumLayout(fig) == update_layout(fig, "legend_title=File names; showlegend")

\* SpectrumPanel with the line markers moved to the rest frame like the
\* wavelengths of the spectra.
SpectrumPanelShifted(row, folder) ==
    LET z == Redshift(row)
        shifted == [i \in 1..Len(rest_lines) |->
                       [label |-> rest_lines[i].label,
                        wl_rest |-> Num((rest_lines[i].wl_rest.v * z.d)
                                            \div (z.d + z.n))]]
        matching_files ==
            Masked(folder.files,
                   [i \in 1..Len(folder.files) |->
                       ~startswith_dot(folder.files[i].name)])
        st == SpectrumLoop([fig |-> EmptyFigure, all_y_vals |-> <<>>,
                            raised |-> FALSE], matching_files, z)
        noTraces == IF st.fig.traces = <<>>
                    THEN add_annotation(st.fig, "No valid spectrum traces found")
                    ELSE st.fig
        marked == IF st.all_y_vals # <<>>
                  THEN AddMarkers(update_xaxes(noTraces, "Rest Wavelength (A)"),
                                  shifted)
                  ELSE noTraces
        fig == CASE folder.k = "missing" ->
                      add_annotation(EmptyFigure, "No spectrum folder found")
                 [] folder.k = "unlistable" ->
                      add_annotation(EmptyFigure, "Error loading spectrum")
                 [] matching_files = <<>> ->
                      add_annotation(EmptyFigure, "No spectrum files found")
                 [] st.raised -> add_annotation(st.fig, "Error loading spectrum")
                 [] OTHER -> marked
    IN [shown |-> TRUE, z |-> z, fig |-> SpectrumLayout(fig)]

\* The spectrum section of update_individual_plots: the redshift it used
\* and its figure.
SpectrumPanel(row, folder) ==
    LET z == Redshift(row)
        matching_files ==
            Masked(folder.files,
                   [i \in 1..Len(folder.files) |->
                       ~startswith_dot(folder.files[i].name)])
        st == SpectrumLoop([fig |-> EmptyFigure, all_y_vals |-> <<>>,
                            raised |-> FALSE], matching_files, z)
        noTraces == IF st.fig.traces = <<>>
                    THEN add_annotation(st.fig, "No valid spectrum traces found")
                    ELSE st.fig
        marked == IF st.all_y_vals # <<>>
                  THEN AddMarkers(update_xaxes(noTraces, "Rest Wavelength (A)"),
                                  rest_lines)
                  ELSE noTraces
        fig == CASE folder.k = "missing" ->
                      add_annotation(EmptyFigure, "No spectrum folder found")
                 [] folder.k = "unlistable" ->
                      add_annotation(EmptyFigure, "Error loading spectrum")
                 [] matching_files = <<>> ->
                      add_annotation(EmptyFigure, "No spectrum files found")
                 [] st.raised -> add_annotation(st.fig, "Error loading spectrum")
                 [] OTHER -> marked
    IN [shown |-> TRUE, z |-> z, fig |-> SpectrumLayout(fig)]

----------------------------------------------------------------------------
(* Callback: global histogram (APP.py:186-210) *)

\* re.sub(r'\s*\(vega\)\s*', '', s)
RECURSIVE remove_vega(_)
remove_vega(t) ==
    IF t = <<>> THEN t
    ELSE LET u == lstrip(t)
         IN IF Len(u) >= 6 /\ SubSeq(u, 1, 6) = <<"(", "v", "e", "g", "a", ")">>
            THEN remove_vega(lstrip(SubSeq(u, 7, Len(u))))
            ELSE <<Head(t)>> \o remove_vega(Tail(t))

\* Lines 196-200 on one cell: the number kept, or dropped (ok = FALSE).
discovery_mag(cell) ==
    IF ~notna(cell) THEN [ok |-> FALSE, value |-> Quot(0, 1)]
    ELSE IF cell.k = "num" THEN [ok |-> TRUE, value |-> Quot(cell.v, 1)]
    ELSE ParseFloat(remove_vega(cell.s))

RECURSIVE mag_vals(_)
mag_vals(table) ==
    IF table = <<>> THEN <<>>
    ELSE LET front == mag_vals(SubSeq(table, 1, Len(table) - 1))
             m == discovery_mag(table[Len(table)]["Discovery mag/flux"])
         IN IF m.ok THEN Append(front, m.value) ELSE front

histogram(name, x, nbins) ==
    add_trace(EmptyFigure, [name |-> name, x |-> x, nbins |-> nbins])

\* update_graph that stores the cleaned column back into df.
update_graph_in_place(table, chosen) ==
    IF chosen = "Discovery mag/flux"
    THEN [df  |-> [i \in 1..Len(table) |->
                     [table[i] EXCEPT !["Discovery mag/flux"] =
                         IF notna(@) /\ @.k = "str" THEN Str(remove_vega(@.s)) ELSE @]],
          fig |-> histogram("value", mag_vals(table), 30)]
    ELSE [df  |-> table,
          fig |-> histogram(chosen, [i \in 1..Len(table) |-> table[i][chosen]], 0)]

\* The callback on the module-level table: the table afterwards and the
\* figure returned.
update_graph(table, chosen) ==
    IF chosen = "Discovery mag/flux"
    THEN [df  |-> table,
          fig |-> histogram("value", mag_vals(table), 30)]
    ELSE [df  |-> table,
          fig |-> histogram(chosen, [i \in 1..Len(table) |-> table[i][chosen]], 0)]

----------------------------------------------------------------------------
(* Callback: update individual plots (APP.py:213-554) *)

\* Lines 238-239.
name_for_file(row) ==
    IF notna(row["AT_name_plain"]) /\ strip(row["AT_name_plain"].s) # <<>>
    THEN row["AT_name_plain"]
    ELSE row["ZTF_name_plain"]

\* Lines 444-451, for a name_for_file that is a string.
spec_name(row, name) ==
    IF strip(name) # <<>> THEN name
    ELSE IF notna(row["AT name"]) /\ strip(row["AT name"].s) # <<>>
         THEN replace_AT(strip(row["AT name"].s))
    ELSE IF notna(row["Alternative name"]) /\ strip(row["Alternative name"].s) # <<>>
         THEN strip(row["Alternative name"].s)
    ELSE name

NoFigures == [optical |-> EmptyFigure, uvot |-> EmptyFigure,
              xray |-> EmptyFigure, spectrum |-> EmptyFigure]

\* The callback on the module-level table and the data directories: the
\* table afterwards and what the call gave, four figures or the exception
\* that left it ("target_" + NaN at line 243 is a TypeError).
update_individual_plots(table, files, selected_index, snr_threshold) ==
    IF selected_index = None
    THEN [df |-> table, out |-> [raised |-> "", figs |-> NoFigures]]
    ELSE LET row  == table[selected_index.v + 1]
             name == name_for_file(row)
         IN IF ~notna(name)
            THEN [df |-> table, out |-> [raised |-> "TypeError", figs |-> <<>>]]
            ELSE [df |-> table,
                  out |->
                    [raised |-> "",
                     figs |->
                       [optical |->
                          OpticalPanel(ReadPath(files, PathOf(data_dir_bhtom, name.s))),
                        uvot |->
                          UvotPanel(ReadPath(files, PathOf(data_dir_uvot, name.s))),
                        xray |->
                          XrayPanel(ReadPath(files, PathOf(data_dir_xray, name.s)),
                                    snr_threshold).fig,
                        spectrum |->
                          SpectrumPanel(row,
                                ReadPath(files,
                                    PathOf(data_dir_sp, spec_name(row, name.s)))).fig]]]

----------------------------------------------------------------------------
(* The X-ray panel alone: one light-curve file, the threshold input moved *)

MaxRows    == 2   \* rows of a file that has every column
MaxOptRows == 1   \* rows of a file that lacks one column

SeqsUpTo(S, n) == UNION {[1..m -> S] : m \in 0..n}

\* Labels as the file spells them: an empty cell, " pl", "BB ", "xx".
Labels == {NaN, Str(<<" ", "p", "l">>), Str(<<"B", "B", " ">>), Str(<<"x", "x">>)}

XrayRowAt(start, stop, flux, snr, label) ==
    [mjd_start |-> start, mjd_stop |-> stop,
     src_flux |-> flux, src_flux_errinf |-> Num(1), src_flux_errsup |-> Num(2),
     src_flux_SNR |-> snr, src_flux_UL |-> Num(7),
     flux_fit_pl |-> Num(11), flux_fit_pl_errinf |-> Num(12),
     flux_fit_pl_errsup |-> Num(13),
     flux_fit_bb |-> Num(21), flux_fit_bb_errinf |-> Num(22),
     flux_fit_bb_errsup |-> Num(23),
     best_model |-> label]

XrayRow(flux, snr, label) == XrayRowAt(Num(10), Num(13), flux, snr, label)

XrayRows ==
    {XrayRow(flux, snr, label) :
        flux \in {Num(0), Num(5)}, snr \in {Num(2), Num(5), NaN}, label \in Labels}

\* The table with only the columns cols.
Restricted(rows, cols) ==
    Table(cols, [i \in 1..Len(rows) |-> [c \in cols |-> rows[i][c]]])

\* The columns the specification calls optional.
XrayOptional == XrayDefaulted \cup {"best_model"}

XrayFiles ==
    {Restricted(rows, XrayColumns) : rows \in SeqsUpTo(XrayRows, MaxRows)}
    \cup UNION {{Restricted(rows, XrayColumns \ {c}) :
                    rows \in SeqsUpTo(XrayRows, MaxOptRows)} : c \in XrayOptional}

\* What 'snr-input' (type number, min 0) can deliver: a number >= 0, or
\* None when the field is cleared.
SnrInputs == {None, Num(0), Num(3)}

\* The spectrum panel before any object is selected.
NotShown == [shown |-> FALSE, z |-> Quot(0, 1), fig |-> EmptyFigure]

\* No call made yet.
NotCalled == [raised |-> "never", value |-> None]

\* The panel before any object is selected.
NotRun == [ended |-> "never", masks |-> NoMasks, thr |-> None,
           fig |-> EmptyFigure]

\* No response of update_individual_plots to show.
NoResponse == [raised |-> "never", figs |-> <<>>]

AppIdle ==
    /\ df = <<>> /\ fs = <<>> /\ writes = 0
    /\ target = None /\ snr_input = Num(3) /\ plots = NoResponse
    /\ col_chosen = "Redshift" /\ graph = EmptyFigure
XrayIdle == xfile = MissingFile /\ xthr = Num(3) /\ xout = NotRun /\ xprev = NotRun
SpecIdle ==
    srow = [Redshift |-> NaN] /\ sfolder = MissingFolder /\ sout = NotShown
VegaIdle == vmag = Num(0) /\ vfilt = "" /\ vout = NotCalled

XrayInit ==
    /\ xfile \in XrayFiles
    /\ xthr = Num(3)
    /\ xout = NotRun
    /\ xprev = NotRun
    /\ AppIdle /\ SpecIdle /\ VegaIdle

\* The threshold input changes and the callback rebuilds the panel.
XrayUpdate ==
    \E t \in SnrInputs :
        /\ xthr' = t
        /\ xprev' = xout
        /\ xout' = XrayPanel(xfile, t)
        /\ UNCHANGED <<xfile, appVars, specVars, vegaVars>>

XrayNext == XrayUpdate

SpecXray == XrayInit /\ [][XrayNext]_vars

----------------------------------------------------------------------------
(* Properties of the X-ray panel, under SpecXray *)

Ran(out) == out.ended = "ok"
Rows     == 1..Len(xfile.rows)
Groups   == {"src_det_mask", "pl_mask", "bb_mask", "ul_mask"}

\* C1: the four plotted groups (raw detection, power law, blackbody, upper
\* limit) cover every record of the file exactly once, whatever its flux,
\* SNR and best-model label.
C1_TotalPartition ==
    Ran(xout) =>
        \A i \in Rows : Cardinality({g \in Groups : xout.masks[g][i]}) = 1

\* C2: a record whose src_flux is 0 is in the upper-limit group and in no
\* detection group, whatever its SNR and the threshold.
C2_ZeroFluxIsUpperLimit ==
    Ran(xout) =>
        \A i \in Rows :
            FEq(xfile.rows[i].src_flux, Num(0)) =>
                /\ xout.masks.ul_mask[i]
                /\ ~xout.masks.det_mask[i]
                /\ ~xout.masks.pl_mask[i]
                /\ ~xout.masks.bb_mask[i]
                /\ ~xout.masks.src_det_mask[i]

\* A zero-flux record whose SNR is at or above the threshold was classified.
C2_Witness ==
    /\ Ran(xout)
    /\ \E i \in Rows :
        /\ FEq(xfile.rows[i].src_flux, Num(0))
        /\ FGe(xfile.rows[i].src_flux_SNR, xout.thr)
        /\ xout.masks.ul_mask[i]

\* lo was computed under a threshold no larger than hi's.
MonotonePair(lo, hi) ==
    (Ran(lo) /\ Ran(hi) /\ lo.thr.k = "num" /\ hi.thr.k = "num"
        /\ lo.thr.v <= hi.thr.v) =>
        \A i \in Rows :
            /\ hi.masks.det_mask[i] => lo.masks.det_mask[i]
            /\ lo.masks.ul_mask[i] => hi.masks.ul_mask[i]

\* C3: for thresholds t1 <= t2, a detection under t2 is a detection under
\* t1 and an upper limit under t1 is an upper limit under t2, for the
\* classification before and after any change of the threshold.
C3_ThresholdMonotone ==
    MonotonePair(xprev, xout) /\ MonotonePair(xout, xprev)

\* The threshold was lowered and a record moved from upper limit to
\* detection, while another detection stayed one.
C3_Witness ==
    /\ Ran(xprev) /\ Ran(xout)
    /\ xprev.thr.k = "num" /\ xout.thr.k = "num" /\ xout.thr.v < xprev.thr.v
    /\ \E i \in Rows : xprev.masks.ul_mask[i] /\ xout.masks.det_mask[i]
    /\ \E i \in Rows : xprev.masks.det_mask[i] /\ xout.masks.det_mask[i]

\* The file with the column c added and filled with zero in every row (an
\* empty cell for the label).
ZeroFilled(t, c) ==
    Table(t.cols \cup {c},
          [i \in 1..Len(t.rows) |->
              [d \in t.cols \cup {c} |->
                  IF d # c THEN t.rows[i][d]
                  ELSE IF c = "best_model" THEN NaN ELSE Num(0)]])

\* C6: on a file that lacks an optional column the panel runs without
\* error and plots what it plots for the same file with that column
\* present and zero in every row.
C6_MissingColumnAsZero ==
    \A c \in XrayOptional :
        (xout.ended # "never" /\ xout.thr.k = "num" /\ c \notin xfile.cols) =>
            /\ Ran(xout)
            /\ xout.fig = XrayPanel(ZeroFilled(xfile, c), xout.thr).fig

\* The same for the columns that the code gives a default.
DefaultedColumnAsZero ==
    \A c \in XrayDefaulted :
        (xout.ended # "never" /\ xout.thr.k = "num" /\ c \notin xfile.cols) =>
            /\ Ran(xout)
            /\ xout.fig = XrayPanel(ZeroFilled(xfile, c), xout.thr).fig

\* The trace of that name in the figure; one of no points when absent.
TraceNamed(fig, name) ==
    IF \E j \in 1..Len(fig.traces) : fig.traces[j].name = name
    THEN fig.traces[CHOOSE j \in 1..Len(fig.traces) : fig.traces[j].name = name]
    ELSE [name |-> name, x |-> <<>>, y |-> <<>>, error_y |-> name # "Upper limits",
          array |-> <<>>, arrayminus |-> <<>>]

\* The points of the records in the set of rows I, read from the columns
\* y, hi and lo, in file order.
PointsOf(t, isIn, name, y, hi, lo) ==
    ErrorTrace(name, Masked(mjd_vals(t), isIn), Masked(Column(t, y), isIn),
               Masked(Column(t, hi), isIn), Masked(Column(t, lo), isIn))

\* C10: a detection labelled PL (upper-cased, trimmed) is plotted with
\* flux_fit_pl and its errors, one labelled BB with flux_fit_bb and its
\* errors, every other detection with src_flux and its errors, and every
\* upper limit with src_flux_UL and no error bars.
C10_PlottedValues ==
    (Ran(xout) /\ xfile.cols = XrayColumns) =>
        LET det    == xout.masks.det_mask
            label  == best_model_raw(xfile)
            isPL   == [i \in Rows |-> det[i] /\ label[i] = <<"P", "L">>]
            isBB   == [i \in Rows |-> det[i] /\ label[i] = <<"B", "B">>]
            isRaw  == [i \in Rows |-> det[i] /\ ~isPL[i] /\ ~isBB[i]]
        IN /\ TraceNamed(xout.fig, "Detection (PL fit)") =
                PointsOf(xfile, isPL, "Detection (PL fit)", "flux_fit_pl",
                         "flux_fit_pl_errsup", "flux_fit_pl_errinf")
           /\ TraceNamed(xout.fig, "Detection (BB fit)") =
                PointsOf(xfile, isBB, "Detection (BB fit)", "flux_fit_bb",
                         "flux_fit_bb_errsup", "flux_fit_bb_errinf")
           /\ TraceNamed(xout.fig, "Detection (raw src_flux)") =
                PointsOf(xfile, isRaw, "Detection (raw src_flux)", "src_flux",
                         "src_flux_errsup", "src_flux_errinf")
           /\ TraceNamed(xout.fig, "Upper limits") =
                PlainTrace("Upper limits",
                           Masked(mjd_vals(xfile), xout.masks.ul_mask),
                           Masked(Column(xfile, "src_flux_UL"), xout.masks.ul_mask))

----------------------------------------------------------------------------
(* The X-ray panel on files whose records carry different times *)

MaxTimedRows == 3   \* rows of a file whose records differ in time

\* (mjd_start, mjd_stop) of a record: midpoints 11.5 and 5.
XrayTimes == {<<Num(10), Num(13)>>, <<Num(4), Num(6)>>}

\* Records of every plotted group at either time: SNR 5 under each label,
\* and SNR 2 (an upper limit under the default threshold) without a label.
TimedRows ==
    {XrayRowAt(t[1], t[2], Num(5), Num(5), label) :
        t \in XrayTimes,
        label \in {NaN, Str(<<" ", "p", "l">>), Str(<<"B", "B", " ">>)}}
    \cup {XrayRowAt(t[1], t[2], Num(5), Num(2), NaN) : t \in XrayTimes}

TimedFiles ==
    {Table(XrayColumns, rows) : rows \in SeqsUpTo(TimedRows, MaxTimedRows)}

XrayTimesInit ==
    /\ xfile \in TimedFiles
    /\ xthr = Num(3)
    /\ xout = NotRun
    /\ xprev = NotRun
    /\ AppIdle /\ SpecIdle /\ VegaIdle

SpecXrayTimes == XrayTimesInit /\ [][XrayNext]_vars

\* The name of the trace that plots a group.
GroupTrace(g) ==
    CASE g = "src_det_mask" -> "Detection (raw src_flux)"
      [] g = "pl_mask"      -> "Detection (PL fit)"
      [] g = "bb_mask"      -> "Detection (BB fit)"
      [] g = "ul_mask"      -> "Upper limits"

\* The records of the file that the panel put in group g.
Members(g) == {i \in Rows : xout.masks[g][i]}

\* The record behind the j-th point of group g when the points are in file
\* order: the member with j members at or before it.
RecordOf(g, j) ==
    CHOOSE i \in Members(g) : Cardinality({k \in Members(g) : k <= i}) = j

\* x is (mjd_start + mjd_stop) / 2 of the record.
IsMidpointOf(x, record) ==
    /\ x.d # 0
    /\ record.mjd_start.k = "num" /\ record.mjd_stop.k = "num"
    /\ 2 * x.n = (record.mjd_start.v + record.mjd_stop.v) * x.d

\* C11: within each of the four plotted groups the points are in the order
\* of their records in the file, one point per record of the group, and the
\* time of each point is the midpoint (mjd_start + mjd_stop) / 2 of its own
\* record, for every file and every threshold.
C11_OrderPreserved ==
    Ran(xout) =>
        \A g \in Groups :
            LET points == TraceNamed(xout.fig, GroupTrace(g)).x
            IN /\ Len(points) = Cardinality(Members(g))
               /\ \A j \in 1..Len(points) :
                    IsMidpointOf(points[j], xfile.rows[RecordOf(g, j)])

\* A group was plotted with two records whose times run against the file
\* order (the later one first) and a record of another group between them.
C11_Witness ==
    /\ Ran(xout)
    /\ \E g \in Groups : \E a, b, c \in Rows :
        /\ a < b /\ b < c
        /\ xout.masks[g][a] /\ ~xout.masks[g][b] /\ xout.masks[g][c]
        /\ xfile.rows[a].mjd_start.v > xfile.rows[c].mjd_start.v
        /\ Len(TraceNamed(xout.fig, GroupTrace(g)).x) = 2

----------------------------------------------------------------------------
(* swift_vega_to_ab alone *)

\* Vega magnitudes 14.00 .. 14.20, and a missing measurement.
VegaMags == {Num(m) : m \in 1400..1420} \cup {NaN}

\* The six filter codes and some that are none of them.
FilterCodes == {"w2", "m2", "w1", "uu", "bb", "vv", "W2", "white", "u"}

VegaInit ==
    /\ vmag = Num(0) /\ vfilt = "" /\ vout = NotCalled
    /\ AppIdle /\ XrayIdle /\ SpecIdle

VegaCall ==
    \E m \in VegaMags, f \in FilterCodes :
        /\ vmag' = m
        /\ vfilt' = f
        /\ vout' = swift_vega_to_ab(m, f)
        /\ UNCHANGED <<appVars, xrayVars, specVars>>

VegaNext == VegaCall

SpecVega == VegaInit /\ [][VegaNext]_vars

\* C8: for each of the six filter codes the call returns m_vega plus the
\* filter's AB zero point minus its Vega zero point, and for any other
\* code it raises and returns nothing.
C8_VegaToAB ==
    vout.raised # "never" =>
        IF vfilt \in {"w2", "m2", "w1", "uu", "bb", "vv"}
        THEN /\ vout.raised = ""
             /\ vmag.k = "num" =>
                    /\ vout.value.k = "num"
                    /\ vout.value.v =
                         vmag.v + (zeropoints_new[vfilt].ab - zeropoints_new[vfilt].vega)
        ELSE vout.raised = "KeyError" /\ vout.value = None

\* A w1 magnitude was converted: 14.05 Vega is 15.56 AB.
C8_Witness ==
    /\ vfilt = "w1" /\ vmag = Num(1405)
    /\ vout.raised = "" /\ vout.value = Num(1556)

----------------------------------------------------------------------------
(* The spectrum panel alone: an object with some redshift cell and some *)
(* spectrum folder is selected                                          *)

MaxSpecFiles == 2   \* files in a spectrum folder

\* The Redshift cell of the catalogue row: an empty cell, 0 and 1 of a
\* numeric column, and "0.5", " 2" and "~0.1" of a column read as text.
RedshiftCells ==
    {NaN, Num(0), Num(1), Str(<<"0", ".", "5">>), Str(<<" ", "2">>),
     Str(<<"~", "0", ".", "1">>)}

\* What a spectrum file can hold: nothing pd.read_csv can parse; a single
\* column; a header line read as text; two columns; three columns.
SpecContents ==
    {[k |-> "unreadable", ncols |-> 0, w |-> <<>>, f |-> <<>>],
     [k |-> "table", ncols |-> 1, w |-> <<Num(65628)>>, f |-> <<>>],
     [k |-> "table", ncols |-> 2,
      w |-> <<Str(<<"w", "l">>), Str(<<"4", "0", "0", "0">>)>>,
      f |-> <<Str(<<"f">>), Str(<<"1">>)>>],
     [k |-> "table", ncols |-> 2,
      w |-> <<Num(65628), Num(48613)>>, f |-> <<Num(3), NaN>>],
     [k |-> "table", ncols |-> 3, w |-> <<Num(40000)>>, f |-> <<Num(9)>>]}

\* The i-th file of a listing is named "s<i>" or ".s<i>".
SpecFilesAt(i) ==
    {[name |-> n, content |-> c] :
        n \in {<<"s", Digits[i + 1]>>, <<".", "s", Digits[i + 1]>>},
        c \in SpecContents}

SpecFolders ==
    {MissingFolder, UnlistableFolder}
    \cup UNION {{Folder(fl) :
                    fl \in {g \in [1..m -> UNION {SpecFilesAt(i) : i \in 1..m}] :
                                \A i \in 1..m : g[i] \in SpecFilesAt(i)}} :
                m \in 0..MaxSpecFiles}

SpectrumInit ==
    /\ srow \in {[Redshift |-> cell] : cell \in RedshiftCells}
    /\ sfolder \in SpecFolders
    /\ sout = NotShown
    /\ AppIdle /\ XrayIdle /\ VegaIdle

\* The object is selected and the callback builds its spectrum panel.
SpectrumSelect ==
    /\ sout' = SpectrumPanel(srow, sfolder)
    /\ UNCHANGED <<srow, sfolder, appVars, xrayVars, vegaVars>>

SpectrumNext == SpectrumSelect

SpecSpectrum == SpectrumInit /\ [][SpectrumNext]_vars

\* The file of that name in the folder.
FileNamed(folder, name) ==
    folder.files[CHOOSE i \in 1..Len(folder.files) : folder.files[i].name = name]

\* C9: the redshift used is 0 when the catalogued one is missing or is no
\* number; every plotted wavelength is the observed one over 1 + z and
\* every intensity the value of the file; so with z = 0 every plotted
\* wavelength is the observed one.
C9_RestFrame ==
    sout.shown =>
        /\ (srow.Redshift \in {NaN, Str(<<"~", "0", ".", "1">>)}) => sout.z.n = 0
        /\ srow.Redshift = Num(1) => QEq(sout.z, Quot(1, 1))
        /\ srow.Redshift = Str(<<"0", ".", "5">>) => QEq(sout.z, Quot(1, 2))
        /\ \A t \in 1..Len(sout.fig.traces) :
            LET tr == sout.fig.traces[t]
                c  == FileNamed(sfolder, tr.name).content
            IN /\ \E i \in 1..Len(sfolder.files) : sfolder.files[i].name = tr.name
               /\ Len(tr.x) = Len(c.w)
               /\ tr.y = c.f
               /\ \A j \in 1..Len(tr.x) :
                    \* x = w / (1 + z), as x * (z.d + z.n) = w * z.d
                    /\ tr.x[j].d # 0
                    /\ tr.x[j].n * (sout.z.d + sout.z.n)
                         = c.w[j].v * sout.z.d * tr.x[j].d
                    /\ sout.z.n = 0 => QEq(tr.x[j], Quot(c.w[j].v, 1))

\* A spectrum was plotted for an object whose redshift is no number, at
\* the observed wavelengths.
C9_Witness ==
    /\ sout.shown
    /\ srow.Redshift = Str(<<"~", "0", ".", "1">>)
    /\ Len(sout.fig.traces) = 2
    /\ QEq(sout.fig.traces[1].x[1], Quot(65628, 1))

\* The line markers of the figure: its shapes, and its annotations placed
\* at a wavelength.
MarkerLines(fig) == fig.shapes
MarkerLabels(fig) ==
    Masked(fig.annotations,
           [i \in 1..Len(fig.annotations) |-> fig.annotations[i].x # None])

\* H alpha at 6562.8, H beta at 4861.3 and He II at 4686.0 angstrom.
ThreeLines ==
    <<[x0 |-> Num(65628), x1 |-> Num(65628)],
      [x0 |-> Num(48613), x1 |-> Num(48613)],
      [x0 |-> Num(46860), x1 |-> Num(46860)]>>
ThreeLabels ==
    <<[text |-> "H alpha", x |-> Num(65628)],
      [text |-> "H beta", x |-> Num(48613)],
      [text |-> "He II", x |-> Num(46860)]>>

HasThreeMarkers(fig) ==
    MarkerLines(fig) = ThreeLines /\ MarkerLabels(fig) = ThreeLabels

\* The folder was gone through without error and a file of it was plotted.
SpectrumPlotted(fig) ==
    /\ fig.traces # <<>>
    /\ \A i \in 1..Len(fig.annotations) :
            fig.annotations[i].text # "Error loading spectrum"

\* C12 as stated: the three line markers are in the spectrum panel at
\* their literal wavelengths for every selected object, whatever its
\* redshift and its spectrum files.
C12_MarkersAlways == sout.shown => HasThreeMarkers(sout.fig)

\* C12 as amended: when the folder was gone through without error and at
\* least one spectrum file was plotted, the three line markers are in the
\* panel at 6562.8, 4861.3 and 4686.0 angstrom whatever the redshift and
\* the files; otherwise the panel has no line marker.
C12_MarkersWhenPlotted ==
    sout.shown =>
        IF SpectrumPlotted(sout.fig)
        THEN HasThreeMarkers(sout.fig)
        ELSE MarkerLines(sout.fig) = <<>> /\ MarkerLabels(sout.fig) = <<>>

\* A spectrum of an object at redshift 1 was plotted at half its observed
\* wavelengths, with the three markers at their literal wavelengths.
C12_Witness ==
    /\ sout.shown
    /\ srow.Redshift = Num(1)
    /\ Len(sout.fig.traces) >= 1
    /\ QEq(sout.fig.traces[1].x[1], Quot(65628, 2))
    /\ HasThreeMarkers(sout.fig)

----------------------------------------------------------------------------
(* The dashboard: the catalogue loaded, the data directories, and the two *)
(* callbacks fired by the browser's controls                              *)

MaxWrites == 1   \* changes of the data directories

CsvRow(at, alt, ztf, z, mag) ==
    [c \in {"AT name", "Alternative name", "ZTF name", "Gaia alert name",
            "Redshift", "Discovery date (UT)", "Discovery mag/flux"} |->
        CASE c = "AT name" -> at
          [] c = "Alternative name" -> alt
          [] c = "ZTF name" -> ztf
          [] c = "Redshift" -> z
          [] c = "Discovery mag/flux" -> mag
          [] OTHER -> NaN]

\* TDE_catalogue_all.csv as read at line 73: an object with an AT name, one
\* with only an alternative name, one with only a ZTF name, one with no
\* name at all, and one whose names are blank.
CatalogueCSV ==
    <<CsvRow(Str(<<"A", "T", " ", "1">>), NaN, Str(<<"Z", "1">>),
             Str(<<"0", ".", "5">>),
             Str(<<"1", "8", " ", "(", "v", "e", "g", "a", ")">>)),
      CsvRow(NaN, Str(<<"a", "2">>), NaN, NaN, Str(<<"1", "7", ".", "5">>)),
      CsvRow(NaN, NaN, Str(<<" ", "Z", "3">>), Str(<<"~", "1">>), NaN),
      CsvRow(NaN, NaN, NaN, Str(<<"1">>), Str(<<"<", "2", "0">>)),
      CsvRow(Str(<<" ">>), NaN, Str(<<" ">>), NaN, NaN)>>

\* The options of 'target-dropdown' (lines 149-155): no selection, or the
\* 0-based index of a row.
TargetOptions == {None} \cup {Num(i - 1) : i \in 1..Len(CatalogueCSV)}

\* The options of 'controls-and-radio-item' (lines 138-143).
HistogramOptions == {"Redshift", "Discovery date (UT)", "Discovery mag/flux"}

\* The objects for which the data directories may hold files.
DataNames == {<<"A", "T", "1">>, <<"Z", "3">>}
DataDirs  == {data_dir_bhtom, data_dir_uvot, data_dir_xray, data_dir_sp}
DataPaths == {PathOf(dir, name) : dir \in DataDirs, name \in DataNames}

OpticalGood ==
    Table(OpticalColumns,
          <<[Filter |-> Str(<<"r">>), MJD |-> Num(100), Magnitude |-> Num(1800),
             Error |-> Num(5)],
            [Filter |-> Str(<<"g">>), MJD |-> Num(101), Magnitude |-> Num(1750),
             Error |-> Num(4)]>>)
OpticalNoFilter ==
    Table({"MJD", "Magnitude", "Error"},
          <<[MJD |-> Num(100), Magnitude |-> Num(1800), Error |-> Num(5)]>>)

UvotGoodRow ==
    [mjd |-> Num(100), mag_w2_src |-> Num(1405), magerr_w2_src |-> Num(3),
     mag_uu_src |-> NaN, magerr_uu_src |-> NaN, mag_bb_src |-> Num(1500)]
UvotGood  == Table(DOMAIN UvotGoodRow, <<UvotGoodRow>>)
UvotNoMjd ==
    Table(DOMAIN UvotGoodRow \ {"mjd"},
          <<[c \in DOMAIN UvotGoodRow \ {"mjd"} |-> UvotGoodRow[c]]>>)

XrayGoodRows ==
    <<XrayRow(Num(5), Num(5), Str(<<" ", "p", "l">>)), XrayRow(Num(5), Num(2), NaN)>>
XrayGood    == Restricted(XrayGoodRows, XrayColumns)
XrayNoLabel == Restricted(XrayGoodRows, XrayColumns \ {"best_model"})

SpecGood ==
    Folder(<<[name |-> <<"s", "1">>,
              content |-> [k |-> "table", ncols |-> 2,
                           w |-> <<Num(65628), Num(48613)>>, f |-> <<Num(3), NaN>>]]>>)
SpecText ==
    Folder(<<[name |-> <<"s", "1">>,
              content |-> [k |-> "table", ncols |-> 2,
                           w |-> <<Str(<<"w", "l">>)>>, f |-> <<Str(<<"f">>)>>]]>>)

\* What the environment may put at a path of the directory.
ContentsAt(dir) ==
    CASE dir = data_dir_bhtom -> {MissingFile, UnreadableFile, OpticalGood, OpticalNoFilter}
      [] dir = data_dir_uvot  -> {MissingFile, UnreadableFile, UvotGood, UvotNoMjd}
      [] dir = data_dir_xray  -> {MissingFile, UnreadableFile, XrayGood, XrayNoLabel}
      [] dir = data_dir_sp    -> {MissingFolder, UnlistableFolder, SpecGood, SpecText}

GoodAt(dir) ==
    CASE dir = data_dir_bhtom -> OpticalGood
      [] dir = data_dir_uvot  -> UvotGood
      [] dir = data_dir_xray  -> XrayGood
      [] dir = data_dir_sp    -> SpecGood

\* The process has loaded the catalogue and served no callback yet; the
\* first object has all its files and the third has none.
Init ==
    /\ df = PrepareCatalogue(CatalogueCSV)
    /\ fs = [path \in DataPaths |->
                IF path[2] = <<"A", "T", "1">> THEN GoodAt(path[1])
                ELSE ReadPath(<<>>, path)]
    /\ writes = 0
    /\ target = None
    /\ snr_input = Num(3)
    /\ plots = NoResponse
    /\ col_chosen = "Redshift"
    /\ graph = EmptyFigure
    /\ XrayIdle /\ SpecIdle /\ VegaIdle

\* 'target-dropdown' changes: update_individual_plots runs with the new
\* selection and the threshold as it stands.
TargetChanged ==
    \E selected_index \in TargetOptions :
        LET r == update_individual_plots(df, fs, selected_index, snr_input)
        IN /\ target' = selected_index
           /\ df' = r.df
           /\ plots' = r.out
           /\ UNCHANGED <<fs, writes, snr_input, col_chosen, graph,
                          xrayVars, specVars, vegaVars>>

\* 'snr-input' changes: update_individual_plots runs with the new threshold
\* and the selection as it stands.
SnrChanged ==
    \E snr_threshold \in SnrInputs :
        LET r == update_individual_plots(df, fs, target, snr_threshold)
        IN /\ snr_input' = snr_threshold
           /\ df' = r.df
           /\ plots' = r.out
           /\ UNCHANGED <<fs, writes, target, col_chosen, graph,
                          xrayVars, specVars, vegaVars>>

\* 'controls-and-radio-item' changes: update_graph runs.
HistogramChanged ==
    \E chosen \in HistogramOptions :
        LET r == update_graph(df, chosen)
        IN /\ col_chosen' = chosen
           /\ df' = r.df
           /\ graph' = r.fig
           /\ UNCHANGED <<fs, writes, target, snr_input, plots,
                          xrayVars, specVars, vegaVars>>

\* A file or folder of the data directories is added, replaced or removed;
\* the response of an earlier callback no longer speaks of the files as
\* they are.
FilesChanged ==
    /\ writes < MaxWrites
    /\ \E path \in DataPaths :
        \E content \in ContentsAt(path[1]) \ {fs[path]} :
            fs' = [fs EXCEPT ![path] = content]
    /\ writes' = writes + 1
    /\ plots' = NoResponse
    /\ UNCHANGED <<df, target, snr_input, col_chosen, graph,
                   xrayVars, specVars, vegaVars>>

Next == TargetChanged \/ SnrChanged \/ HistogramChanged \/ FilesChanged

Spec == Init /\ [][Next]_vars

----------------------------------------------------------------------------
(* Properties of the dashboard, under Spec *)

Responded == plots.raised # "never"

\* The catalogue as loaded at start-up.
LoadedCatalogue == PrepareCatalogue(CatalogueCSV)

\* The row selected, and the name its files go by (NaN when it has none).
SelectedRow  == LoadedCatalogue[target.v + 1]
SelectedName == name_for_file(SelectedRow)

Panels == {"optical", "uvot", "xray", "spectrum"}

DirOf(panel) ==
    CASE panel = "optical"  -> data_dir_bhtom
      [] panel = "uvot"     -> data_dir_uvot
      [] panel = "xray"     -> data_dir_xray
      [] panel = "spectrum" -> data_dir_sp

\* The path of the selected object's file or folder for the panel.
SelectedPath(panel) == PathOf(DirOf(panel), SelectedName.s)

\* The selected object's file or folder for the panel; an object without a
\* name has none.
SelectedFile(panel) ==
    IF notna(SelectedName) THEN ReadPath(fs, SelectedPath(panel))
    ELSE ReadPath(<<>>, PathOf(DirOf(panel), <<>>))

Texts(fig) == {fig.annotations[i].text : i \in 1..Len(fig.annotations)}

NoDataText(panel) ==
    CASE panel = "optical"  -> "No Optical/Infrared data available"
      [] panel = "uvot"     -> "No UVOT data available"
      [] panel = "xray"     -> "No X-ray data available"
      [] panel = "spectrum" -> "No spectrum folder found"

ErrorText(panel) ==
    CASE panel = "optical"  -> "Error loading Optical/Infrared data"
      [] panel = "uvot"     -> "Error loading UVOT data"
      [] panel = "xray"     -> "Error loading X-ray data"
      [] panel = "spectrum" -> "Error loading spectrum"

\* The data directories with the selected object's file for the panel
\* replaced by content.
WithFile(panel, content) ==
    [path \in DOMAIN fs \cup {SelectedPath(panel)} |->
        IF path = SelectedPath(panel) THEN content ELSE fs[path]]

\* The figures of the selected object leave the panel's file out of
\* account: whatever is put in its place, the other three are the same.
OthersIndependent(panel) ==
    \A content \in ContentsAt(DirOf(panel)) :
        LET other == update_individual_plots(df, WithFile(panel, content),
                                             target, snr_input).out
        IN /\ other.raised = ""
           /\ \A q \in Panels \ {panel} : other.figs[q] = plots.figs[q]

\* C4: when the selected object's file (or spectrum folder) of a data type
\* is missing, the callback does not raise, that figure has the 'no data'
\* placeholder and no traces, and the other three figures are what they
\* are whatever the state of that file.
C4_MissingFilePlaceholder ==
    (Responded /\ target # None) =>
        \A panel \in Panels :
            SelectedFile(panel).k = "missing" =>
                /\ plots.raised = ""
                /\ plots.figs[panel].traces = <<>>
                /\ NoDataText(panel) \in Texts(plots.figs[panel])
                /\ OthersIndependent(panel)

\* The same for the objects that have a name to look their files up by.
NamedObjectPlaceholder ==
    (Responded /\ target # None /\ notna(SelectedName)) =>
        \A panel \in Panels :
            SelectedFile(panel).k = "missing" =>
                /\ plots.raised = ""
                /\ plots.figs[panel].traces = <<>>
                /\ NoDataText(panel) \in Texts(plots.figs[panel])
                /\ OthersIndependent(panel)

\* C5: for every row, every value of the threshold input (None included)
\* and every state of the files, the callback returns four figures and
\* does not raise; an unreadable file gives the 'Error loading'
\* placeholder on its own chart and on no other.
C5_NeverRaises ==
    Responded =>
        /\ plots.raised = ""
        /\ target # None =>
            \A panel \in Panels :
                /\ SelectedFile(panel).k \in {"unreadable", "unlistable"} =>
                        ErrorText(panel) \in Texts(plots.figs[panel])
                /\ \A q \in Panels \ {panel} :
                        ErrorText(panel) \notin Texts(plots.figs[q])

\* The same for the objects that have a name to look their files up by.
NamedObjectNeverRaises ==
    (Responded /\ (target # None => notna(SelectedName))) =>
        /\ plots.raised = ""
        /\ target # None =>
            \A panel \in Panels :
                /\ SelectedFile(panel).k \in {"unreadable", "unlistable"} =>
                        ErrorText(panel) \in Texts(plots.figs[panel])
                /\ \A q \in Panels \ {panel} :
                        ErrorText(panel) \notin Texts(plots.figs[q])

====
